---- MODULE Spec2Model ----
(***************************************************************************)
(* Checkout-to-payment-confirmation workflow of the Infinity-Xs backend:   *)
(* cart, order and product documents in the store, the checkout handler,    *)
(* the M-Pesa STK push adapter and the callback / timeout webhooks.         *)
(*                                                                         *)
(* Every HTTP request is a handler instance in a slot of `reqs`; a handler  *)
(* advances one store operation (one `await`) per step, so requests in      *)
(* different slots interleave at every store read and write.  A document    *)
(* loaded by a handler is a private copy (`orderDoc`, `cartDoc`,            *)
(* `productDoc`) as it was when loaded; `save()` sends the paths the handler *)
(* changed on that copy.  Every handler saves a loaded document at most once.*)
(***************************************************************************)
EXTENDS Integers, Sequences, FiniteSets, TLC

\* ------------------------------------------------------------- bounds
MaxReqs == 4        \* requests started in one behaviour
MaxOrders == 2      \* orders inserted in one behaviour
MaxQty == 2         \* largest quantity a client sends
InitStock == 2      \* stock of the finite-stock product at start

\* ------------------------------------------------------------- universe
Users == {"u1"}
Products == {"shirt", "webdev"}
Slots == {1, 2}
NoSel == ""                     \* size / color not given (falsy in the code)
Sizes == {NoSel}
Colors == {NoSel}
NoId == 0                       \* an id field that is not set
UnknownCid == MaxOrders + 1     \* a CheckoutRequestID the provider never issued
Unlimited == 0 - 1              \* stock sentinel of service products

Catalog ==
  [p \in Products |->
     IF p = "shirt"
       THEN [stock |-> InitStock, isActive |-> TRUE, price |-> 2]
       ELSE [stock |-> Unlimited, isActive |-> TRUE, price |-> 1]]

VARIABLES
  products,   \* Product collection: productId -> [stock, isActive, price]
  carts,      \* Cart collection: user -> [exists, items, totalAmount, v]
  orders,     \* Order collection: sequence, index = _id, in creation order
  stk,        \* provider side: sequence of accepted STK pushes, index = CheckoutRequestID
  reqs,       \* slot -> handler instance (position, inputs, loaded documents, response)
  started     \* number of requests started so far

vars == <<products, carts, orders, stk, reqs, started>>

\* ------------------------------------------------------------- documents
NoCart == [exists |-> FALSE, items |-> <<>>, totalAmount |-> 0, v |-> 0]
NoDoc == [exists |-> FALSE]
NoRes == [status |-> 0, ResultCode |-> 0 - 1, ResultDesc |-> ""]
Idle ==
  [kind |-> "idle", pc |-> "idle", in |-> <<>>, order |-> NoId, orderDoc |-> NoDoc,
   cartDoc |-> NoCart, productDoc |-> NoDoc, idx |-> 0, cid |-> NoId,
   stkResult |-> "", err |-> 0, threw |-> FALSE, res |-> NoRes]

RECURSIVE CalcTotal(_)
\* CartSchema.pre('save'): sum of price * quantity over the items
CalcTotal(items) ==
  IF items = <<>> THEN 0
  ELSE Head(items).price * Head(items).quantity + CalcTotal(Tail(items))

\* the (product, size, color) match used by addItem / removeItem / updateQuantity
SameItem(item, productId, size, color) ==
  /\ item.product = productId
  /\ (IF size # NoSel THEN item.size = size ELSE item.size = NoSel)
  /\ (IF color # NoSel THEN item.color = color ELSE item.color = NoSel)

\* Array.prototype.findIndex, 1-based; 0 when no item matches
FindIndex(items, productId, size, color) ==
  LET hits == {i \in 1..Len(items) : SameItem(items[i], productId, size, color)}
  IN IF hits = {} THEN 0 ELSE CHOOSE i \in hits : \A j \in hits : i <= j

\* Order.findOne({ mpesaCheckoutId: cid }): the first matching order, NoId when none
FindByMpesaCheckoutId(cid) ==
  LET hits == {i \in 1..Len(orders) : orders[i].exists /\ orders[i].mpesaCheckoutId = cid}
  IN IF hits = {} THEN NoId ELSE CHOOSE i \in hits : \A j \in hits : i <= j

\* ------------------------------------------------------------- responses
Respond(r, status, code, desc) ==
  [reqs EXCEPT ![r].pc = "done",
               ![r].res = [status |-> status, ResultCode |-> code, ResultDesc |-> desc]]

\* res.status(s).json({success, ...}) of the REST handlers and of errorHandler
Reply(r, status) == Respond(r, status, 0 - 1, "")

\* the webhook acknowledgment { ResultCode: 0, ResultDesc: 'Accepted' }
Accepted(r) == Respond(r, 200, 0, "Accepted")

\* asyncHandler: Promise.resolve(fn(req, res, next)).catch(next), and errorHandler,
\* which answers an error that has no statusCode with 500
asyncHandler(r) == [Reply(r, 500) EXCEPT ![r].threw = TRUE]

Init ==
  /\ products = Catalog
  /\ carts = [u \in Users |-> NoCart]
  /\ orders = <<>>
  /\ stk = <<>>
  /\ reqs = [r \in Slots |-> Idle]
  /\ started = 0

\* a slot is free when no handler is running in it
Free(r) == reqs[r].pc \in {"idle", "done"}

Begin(r, kind, pc, in) ==
  /\ Free(r)
  /\ started < MaxReqs
  /\ started' = started + 1
  /\ reqs' = [reqs EXCEPT ![r] = [Idle EXCEPT !.kind = kind, !.pc = pc, !.in = in]]

At(r, kind, pc) == reqs[r].kind = kind /\ reqs[r].pc = pc

StoreUnchanged == UNCHANGED <<products, carts, orders, stk>>

\* ============================================================= addToCart
\* POST /api/cart: the body is read and the product looked up
AddToCartStart(r) ==
  \E u \in Users, p \in Products, q \in 1..MaxQty, s \in Sizes, c \in Colors :
    /\ Begin(r, "addToCart", "findProduct",
             [user |-> u, productId |-> p, quantity |-> q, size |-> s, color |-> c])
    /\ StoreUnchanged

\* Product.findById and the isActive / stock checks
AddToCartFindProduct(r) ==
  /\ At(r, "addToCart", "findProduct")
  /\ LET in == reqs[r].in
         product == products[in.productId]
     IN reqs' =
          IF ~product.isActive THEN Reply(r, 400)
          ELSE IF product.stock # Unlimited /\ product.stock < in.quantity THEN Reply(r, 400)
          ELSE [reqs EXCEPT ![r].pc = "findCart", ![r].productDoc = product]
  /\ UNCHANGED started
  /\ StoreUnchanged

\* Cart.getOrCreateCart: findOne({ user })
AddToCartFindCart(r) ==
  /\ At(r, "addToCart", "findCart")
  /\ LET cart == carts[reqs[r].in.user]
     IN reqs' = IF cart.exists
                 THEN [reqs EXCEPT ![r].pc = "addItem", ![r].cartDoc = cart]
                 ELSE [reqs EXCEPT ![r].pc = "createCart"]
  /\ UNCHANGED started
  /\ StoreUnchanged

\* Cart.getOrCreateCart: create({ user, items: [] }); `user` is a unique index
AddToCartCreateCart(r) ==
  /\ At(r, "addToCart", "createCart")
  /\ LET u == reqs[r].in.user
         fresh == [exists |-> TRUE, items |-> <<>>, totalAmount |-> 0, v |-> 0]
     IN IF carts[u].exists
          THEN /\ reqs' = Reply(r, 400)          \* duplicate key 11000 -> errorHandler
               /\ UNCHANGED carts
          ELSE /\ carts' = [carts EXCEPT ![u] = fresh]
               /\ reqs' = [reqs EXCEPT ![r].pc = "addItem", ![r].cartDoc = fresh]
  /\ UNCHANGED <<products, orders, stk, started>>

\* mutant: a line is appended whether or not the triple is there
AddItemAlwaysAppends(doc, productId, quantity, price, size, color) ==
  LET items == Append(doc.items, [product |-> productId, quantity |-> quantity,
                                  price |-> price, size |-> size, color |-> color])
  IN [doc EXCEPT !.items = items, !.totalAmount = CalcTotal(items)]

\* cart.addItem(productId, quantity, price, size, color) on the loaded document
AddItem(doc, productId, quantity, price, size, color) ==
  LET i == FindIndex(doc.items, productId, size, color)
      items ==
        IF i > 0
          THEN [doc.items EXCEPT ![i].quantity = @ + quantity]
          ELSE Append(doc.items, [product |-> productId, quantity |-> quantity,
                                  price |-> price, size |-> size, color |-> color])
  IN [doc EXCEPT !.items = items, !.totalAmount = CalcTotal(items)]

\* cart.addItem(...) then save(): an existing line is updated in place under the
\* document version, a new line is pushed and the version incremented
AddToCartAddItem(r) ==
  /\ At(r, "addToCart", "addItem")
  /\ LET in == reqs[r].in
         u == in.user
         doc == reqs[r].cartDoc
         i == FindIndex(doc.items, in.productId, in.size, in.color)
         new == AddItem(doc, in.productId, in.quantity, reqs[r].productDoc.price,
                        in.size, in.color)
     IN IF i > 0
          THEN IF carts[u].v # doc.v
                 THEN /\ reqs' = Reply(r, 500)    \* VersionError
                      /\ UNCHANGED carts
                 ELSE /\ carts' = [carts EXCEPT ![u].items[i].quantity = new.items[i].quantity,
                                                ![u].totalAmount = new.totalAmount]
                      /\ reqs' = Reply(r, 200)
          ELSE /\ carts' = [carts EXCEPT ![u].items = Append(@, new.items[Len(new.items)]),
                                         ![u].totalAmount = new.totalAmount,
                                         ![u].v = @ + 1]
               /\ reqs' = Reply(r, 200)
  /\ UNCHANGED <<products, orders, stk, started>>

\* ============================================================= catalog
Prices == {1, 2, 3}

\* the price of a product is given another value in the Product collection
SetPrice ==
  \E p \in Products, price \in Prices :
    /\ started < MaxReqs
    /\ price # products[p].price
    /\ started' = started + 1
    /\ products' = [products EXCEPT ![p].price = price]
    /\ UNCHANGED <<carts, orders, stk, reqs>>

\* a product is taken out of sale in the Product collection
Deactivate ==
  \E p \in Products :
    /\ started < MaxReqs
    /\ products[p].isActive
    /\ started' = started + 1
    /\ products' = [products EXCEPT ![p].isActive = FALSE]
    /\ UNCHANGED <<carts, orders, stk, reqs>>

\* ============================================================= updateCartItem
\* cart.removeItem(productId, size, color) on the loaded document
RemoveItem(doc, productId, size, color) ==
  LET Keep(item) == ~SameItem(item, productId, size, color)
      items == SelectSeq(doc.items, Keep)
  IN [doc EXCEPT !.items = items, !.totalAmount = CalcTotal(items)]

\* cart.updateQuantity(productId, quantity, size, color) on the loaded document;
\* the document is left as it is when no line matches (the method returns false)
UpdateQuantity(doc, productId, quantity, size, color) ==
  LET i == FindIndex(doc.items, productId, size, color)
  IN IF i = 0 THEN doc
     ELSE IF quantity <= 0 THEN RemoveItem(doc, productId, size, color)
     ELSE LET items == [doc.items EXCEPT ![i].quantity = quantity]
          IN [doc EXCEPT !.items = items, !.totalAmount = CalcTotal(items)]

\* save() after `this.items = this.items.filter(...)`: a changed array is replaced
\* as a whole under the loaded version; an unchanged one is not sent, and neither
\* is a total that is the loaded one
SaveItemsConflict(u, doc, new) == new.items # doc.items /\ carts[u].v # doc.v

\* mutant: the array is written, the total is not
SaveItemsKeepsTotal(u, doc, new) ==
  IF new.items # doc.items
    THEN [carts EXCEPT ![u].items = new.items, ![u].v = @ + 1]
    ELSE carts

SaveItems(u, doc, new) ==
  IF new.items # doc.items
    THEN [carts EXCEPT ![u].items = new.items, ![u].totalAmount = new.totalAmount,
                       ![u].v = @ + 1]
    ELSE IF new.totalAmount # doc.totalAmount
      THEN [carts EXCEPT ![u].totalAmount = new.totalAmount]
      ELSE carts

\* PUT /api/cart/update
UpdateCartItemStart(r) ==
  \E u \in Users, p \in Products, q \in 0..MaxQty, s \in Sizes, c \in Colors :
    /\ Begin(r, "updateCartItem", "findCart",
             [user |-> u, productId |-> p, quantity |-> q, size |-> s, color |-> c])
    /\ StoreUnchanged

\* Cart.findOne({ user }); no cart is 404
UpdateCartItemFindCart(r) ==
  /\ At(r, "updateCartItem", "findCart")
  /\ LET cart == carts[reqs[r].in.user]
     IN reqs' = IF cart.exists
                 THEN [reqs EXCEPT ![r].pc = "updateQuantity", ![r].cartDoc = cart]
                 ELSE Reply(r, 404)
  /\ UNCHANGED started
  /\ StoreUnchanged

\* cart.updateQuantity(...): no matching line is 404; quantity <= 0 removes the
\* line; any other quantity is set in place under the loaded version
UpdateCartItemUpdateQuantity(r) ==
  /\ At(r, "updateCartItem", "updateQuantity")
  /\ LET in == reqs[r].in
         u == in.user
         doc == reqs[r].cartDoc
         i == FindIndex(doc.items, in.productId, in.size, in.color)
         new == UpdateQuantity(doc, in.productId, in.quantity, in.size, in.color)
     IN IF i = 0
          THEN /\ reqs' = Reply(r, 404)
               /\ UNCHANGED carts
          ELSE IF in.quantity <= 0
            THEN IF SaveItemsConflict(u, doc, new)
                   THEN /\ reqs' = Reply(r, 500)   \* VersionError
                        /\ UNCHANGED carts
                   ELSE /\ carts' = SaveItems(u, doc, new)
                        /\ reqs' = Reply(r, 200)
            ELSE IF new.items # doc.items /\ carts[u].v # doc.v
                   THEN /\ reqs' = Reply(r, 500)   \* VersionError
                        /\ UNCHANGED carts
                   ELSE /\ carts' =
                             IF new.items # doc.items
                               THEN [carts EXCEPT ![u].items[i].quantity = in.quantity,
                                                  ![u].totalAmount = new.totalAmount]
                               ELSE SaveItems(u, doc, new)
                        /\ reqs' = Reply(r, 200)
  /\ UNCHANGED <<products, orders, stk, started>>

\* ============================================================= removeFromCart
\* DELETE /api/cart/:productId
RemoveFromCartStart(r) ==
  \E u \in Users, p \in Products, s \in Sizes, c \in Colors :
    /\ Begin(r, "removeFromCart", "findCart",
             [user |-> u, productId |-> p, size |-> s, color |-> c])
    /\ StoreUnchanged

\* Cart.findOne({ user }); no cart is 404
RemoveFromCartFindCart(r) ==
  /\ At(r, "removeFromCart", "findCart")
  /\ LET cart == carts[reqs[r].in.user]
     IN reqs' = IF cart.exists
                 THEN [reqs EXCEPT ![r].pc = "removeItem", ![r].cartDoc = cart]
                 ELSE Reply(r, 404)
  /\ UNCHANGED started
  /\ StoreUnchanged

\* cart.removeItem(productId, size, color) then save()
RemoveFromCartRemoveItem(r) ==
  /\ At(r, "removeFromCart", "removeItem")
  /\ LET in == reqs[r].in
         u == in.user
         doc == reqs[r].cartDoc
         new == RemoveItem(doc, in.productId, in.size, in.color)
     IN IF SaveItemsConflict(u, doc, new)
          THEN /\ reqs' = Reply(r, 500)            \* VersionError
               /\ UNCHANGED carts
          ELSE /\ carts' = SaveItems(u, doc, new)
               /\ reqs' = Reply(r, 200)
  /\ UNCHANGED <<products, orders, stk, started>>

\* ============================================================= clearCart
\* DELETE /api/cart
ClearCartStart(r) ==
  \E u \in Users :
    /\ Begin(r, "clearCart", "findCart", [user |-> u])
    /\ StoreUnchanged

\* Cart.findOne({ user }); no cart is 404
ClearCartFindCart(r) ==
  /\ At(r, "clearCart", "findCart")
  /\ LET cart == carts[reqs[r].in.user]
     IN reqs' = IF cart.exists
                 THEN [reqs EXCEPT ![r].pc = "clearCart", ![r].cartDoc = cart]
                 ELSE Reply(r, 404)
  /\ UNCHANGED started
  /\ StoreUnchanged

\* ============================================================= Order methods
\* the paths of an order that differ between the loaded copy and its new value:
\* save() sends only these, and sends nothing when there are none
Modified(old, new) ==
  {f \in {"status", "paymentStatus", "transactionId", "mpesaCheckoutId",
          "mpesaReceiptNumber", "items", "totalAmount"} : old[f] # new[f]}

\* order.markAsPaid(transactionId, receiptNumber) on the loaded document
markAsPaid(doc, transactionId, receiptNumber) ==
  [doc EXCEPT !.paymentStatus = "completed",
              !.transactionId = transactionId,
              !.mpesaReceiptNumber = IF receiptNumber # "" THEN receiptNumber ELSE @,
              !.status = "paid"]

\* mutant: the failure transition also gives the order up
markPaymentFailedCancels(doc) ==
  [doc EXCEPT !.paymentStatus = "failed", !.status = "cancelled"]

\* order.markPaymentFailed() on the loaded document: status is left alone
markPaymentFailed(doc) == [doc EXCEPT !.paymentStatus = "failed"]

\* document.save() of an existing order: $set of the modified paths on the stored
\* document; TRUE when it went through, FALSE when no stored document matched
SaveOrderOk(id, old, new) == Modified(old, new) = {} \/ orders[id].exists

SaveOrder(id, old, new) ==
  [orders EXCEPT ![id] =
     [f \in DOMAIN @ |-> IF f \in Modified(old, new) THEN new[f] ELSE @[f]]]

\* mutant: the quantity is taken without looking at what is there
decreaseStockUnchecked(doc, quantity) ==
  IF doc.stock = Unlimited THEN [ok |-> TRUE, write |-> FALSE, stock |-> doc.stock]
  ELSE [ok |-> TRUE, write |-> TRUE, stock |-> doc.stock - quantity]

\* mutant: one unit is taken whatever the quantity
decreaseStockByOne(doc, quantity) ==
  IF doc.stock = Unlimited THEN [ok |-> TRUE, write |-> FALSE, stock |-> doc.stock]
  ELSE IF doc.stock < quantity THEN [ok |-> FALSE, write |-> FALSE, stock |-> doc.stock]
  ELSE [ok |-> TRUE, write |-> TRUE, stock |-> doc.stock - 1]

\* product.decreaseStock(quantity) on the loaded document: the value save() writes,
\* or the loaded stock itself when nothing is written (unlimited, or not enough)
decreaseStock(doc, quantity) ==
  IF doc.stock = Unlimited THEN [ok |-> TRUE, write |-> FALSE, stock |-> doc.stock]
  ELSE IF doc.stock < quantity THEN [ok |-> FALSE, write |-> FALSE, stock |-> doc.stock]
  ELSE [ok |-> TRUE, write |-> TRUE, stock |-> doc.stock - quantity]

\* cart.clearCart() then save(): items is replaced as a whole array, which mongoose
\* sends under the loaded version; an already empty cart sends nothing for items
ClearCartConflict(u, doc) == doc.items # <<>> /\ carts[u].v # doc.v

ClearCart(u, doc) ==
  IF doc.items # <<>>
    THEN [carts EXCEPT ![u].items = <<>>, ![u].totalAmount = 0, ![u].v = @ + 1]
    ELSE IF doc.totalAmount # 0 THEN [carts EXCEPT ![u].totalAmount = 0]
    ELSE carts

\* product.increaseStock(quantity) on the loaded document
increaseStock(doc, quantity) ==
  IF doc.stock = Unlimited THEN [write |-> FALSE, stock |-> doc.stock]
  ELSE [write |-> TRUE, stock |-> doc.stock + quantity]

\* a product is loaded and product.decreaseStock(quantity) called on it
DecreaseStockStart(r) ==
  \E p \in Products, q \in 1..MaxQty :
    /\ Free(r)
    /\ started < MaxReqs
    /\ started' = started + 1
    /\ reqs' = [reqs EXCEPT ![r] =
                  [Idle EXCEPT !.kind = "decreaseStock", !.pc = "decreaseStock",
                               !.in = [productId |-> p, quantity |-> q],
                               !.productDoc = products[p]]]
    /\ StoreUnchanged

DecreaseStockSave(r) ==
  /\ At(r, "decreaseStock", "decreaseStock")
  /\ LET d == decreaseStock(reqs[r].productDoc, reqs[r].in.quantity)
     IN /\ products' = IF d.write
                         THEN [products EXCEPT ![reqs[r].in.productId].stock = d.stock]
                         ELSE products
        /\ reqs' = Reply(r, 200)
  /\ UNCHANGED <<carts, orders, stk, started>>

\* a product is loaded and product.increaseStock(quantity) called on it
IncreaseStockStart(r) ==
  \E p \in Products, q \in 1..MaxQty :
    /\ Free(r)
    /\ started < MaxReqs
    /\ started' = started + 1
    /\ reqs' = [reqs EXCEPT ![r] =
                  [Idle EXCEPT !.kind = "increaseStock", !.pc = "increaseStock",
                               !.in = [productId |-> p, quantity |-> q],
                               !.productDoc = products[p]]]
    /\ StoreUnchanged

IncreaseStockSave(r) ==
  /\ At(r, "increaseStock", "increaseStock")
  /\ LET d == increaseStock(reqs[r].productDoc, reqs[r].in.quantity)
     IN /\ products' = IF d.write
                         THEN [products EXCEPT ![reqs[r].in.productId].stock = d.stock]
                         ELSE products
        /\ reqs' = Reply(r, 200)
  /\ UNCHANGED <<carts, orders, stk, started>>

\* ============================================================= updateStatus
OrderStatus == {"pending", "paid", "processing", "shipped", "delivered", "cancelled"}

\* order.updateStatus(newStatus) on the loaded document
updateStatus(doc, newStatus) == [doc EXCEPT !.status = newStatus]

\* an order is loaded and order.updateStatus(newStatus) called on it
UpdateStatusStart(r) ==
  \E id \in 1..Len(orders), st \in OrderStatus :
    /\ orders[id].exists
    /\ Free(r)
    /\ started < MaxReqs
    /\ started' = started + 1
    /\ reqs' = [reqs EXCEPT ![r] =
                  [Idle EXCEPT !.kind = "updateStatus", !.pc = "save",
                               !.in = [order |-> id, newStatus |-> st],
                               !.order = id, !.orderDoc = orders[id]]]
    /\ StoreUnchanged

\* await this.save()
UpdateStatusSave(r) ==
  /\ At(r, "updateStatus", "save")
  /\ LET id == reqs[r].order
         old == reqs[r].orderDoc
         new == updateStatus(old, reqs[r].in.newStatus)
     IN IF SaveOrderOk(id, old, new)
          THEN /\ orders' = SaveOrder(id, old, new)
               /\ reqs' = Reply(r, 200)
          ELSE /\ reqs' = asyncHandler(r)
               /\ UNCHANGED orders
  /\ UNCHANGED <<products, carts, stk, started>>

\* ============================================================= cancelOrder
Cancellable == {"pending", "paid", "processing"}

\* mutant: the items go with the cancellation
cancelOrderDropsItems(doc) ==
  [doc EXCEPT !.status = "cancelled", !.items = <<>>, !.totalAmount = 0]

\* cancelOrder: this.status = OrderStatus.CANCELLED
cancelOrder(doc) == [doc EXCEPT !.status = "cancelled"]

\* mutant: one unit is given back whatever the quantity
RestoreStockByOne(doc, quantity) ==
  IF doc.stock # Unlimited THEN [write |-> TRUE, stock |-> doc.stock + 1]
  ELSE [write |-> FALSE, stock |-> doc.stock]

\* mutant: the sentinel is not looked at
RestoreStockOfAny(doc, quantity) == [write |-> TRUE, stock |-> doc.stock + quantity]

\* cancelOrder: if (product && product.stock !== -1) product.stock += item.quantity
RestoreStock(doc, quantity) ==
  IF doc.stock # Unlimited THEN [write |-> TRUE, stock |-> doc.stock + quantity]
  ELSE [write |-> FALSE, stock |-> doc.stock]

\* an order is loaded and order.cancelOrder() called on it
CancelOrderStart(r) ==
  \E id \in 1..Len(orders) :
    /\ orders[id].exists
    /\ Free(r)
    /\ started < MaxReqs
    /\ started' = started + 1
    /\ reqs' = [reqs EXCEPT ![r] =
                  [Idle EXCEPT !.kind = "cancelOrder", !.pc = "check",
                               !.in = [order |-> id],
                               !.order = id, !.orderDoc = orders[id]]]
    /\ StoreUnchanged

\* mutant: every status may be cancelled
CancelOrderCheckAllowsAll(r) ==
  /\ At(r, "cancelOrder", "check")
  /\ reqs' = IF reqs[r].orderDoc.items = <<>>
               THEN [reqs EXCEPT ![r].pc = "save"]
               ELSE [reqs EXCEPT ![r].pc = "findProduct", ![r].idx = 1]
  /\ UNCHANGED started
  /\ StoreUnchanged

\* if (!cancellableStatuses.includes(this.status)) throw new Error(...)
CancelOrderCheck(r) ==
  /\ At(r, "cancelOrder", "check")
  /\ reqs' = IF reqs[r].orderDoc.status \notin Cancellable THEN asyncHandler(r)
             ELSE IF reqs[r].orderDoc.items = <<>>
               THEN [reqs EXCEPT ![r].pc = "save"]
               ELSE [reqs EXCEPT ![r].pc = "findProduct", ![r].idx = 1]
  /\ UNCHANGED started
  /\ StoreUnchanged

\* const product = await Product.findById(item.product)
CancelOrderFindProduct(r) ==
  /\ At(r, "cancelOrder", "findProduct")
  /\ LET item == reqs[r].orderDoc.items[reqs[r].idx]
     IN reqs' = [reqs EXCEPT ![r].productDoc = products[item.product],
                             ![r].pc = "restore"]
  /\ UNCHANGED started
  /\ StoreUnchanged

\* product.stock += item.quantity; await product.save(); then the next line
CancelOrderRestore(r) ==
  /\ At(r, "cancelOrder", "restore")
  /\ LET item == reqs[r].orderDoc.items[reqs[r].idx]
         d == RestoreStock(reqs[r].productDoc, item.quantity)
     IN /\ products' = IF d.write THEN [products EXCEPT ![item.product].stock = d.stock]
                       ELSE products
        /\ reqs' = IF reqs[r].idx < Len(reqs[r].orderDoc.items)
                     THEN [reqs EXCEPT ![r].pc = "findProduct", ![r].idx = @ + 1]
                     ELSE [reqs EXCEPT ![r].pc = "save"]
  /\ UNCHANGED <<carts, orders, stk, started>>

\* this.status = OrderStatus.CANCELLED; await this.save()
CancelOrderSave(r) ==
  /\ At(r, "cancelOrder", "save")
  /\ LET id == reqs[r].order
         old == reqs[r].orderDoc
         new == cancelOrder(old)
     IN IF SaveOrderOk(id, old, new)
          THEN /\ orders' = SaveOrder(id, old, new)
               /\ reqs' = Reply(r, 200)
          ELSE /\ reqs' = asyncHandler(r)
               /\ UNCHANGED orders
  /\ UNCHANGED <<products, carts, stk, started>>

\* cart.clearCart() of DELETE /api/cart
ClearCartClearCart(r) ==
  /\ At(r, "clearCart", "clearCart")
  /\ LET u == reqs[r].in.user
         doc == reqs[r].cartDoc
     IN IF ClearCartConflict(u, doc)
          THEN /\ reqs' = Reply(r, 500)            \* VersionError
               /\ UNCHANGED carts
          ELSE /\ carts' = ClearCart(u, doc)
               /\ reqs' = Reply(r, 200)
  /\ UNCHANGED <<products, orders, stk, started>>

\* ============================================================= mpesaCallback
CallbackShapes == {"ok", "noBody", "noStkCallback"}
Receipts == {"", "XYZ123"}

\* the provider's record of a success payload it has had acknowledged
Ack(r) ==
  LET in == reqs[r].in
  IN IF in.shape = "ok" /\ in.ResultCode = 0 /\ in.CheckoutRequestID \in 1..Len(stk)
       THEN [stk EXCEPT ![in.CheckoutRequestID].delivered = @ \cup {in.receipt}]
       ELSE stk

\* POST /callback: the body is parsed; a body without Body.stkCallback is answered
\* at once, any other goes on to the order lookup
MpesaCallbackStart(r) ==
  \E shape \in CallbackShapes, cid \in (1..Len(stk)) \cup {UnknownCid},
     rc \in {0, 1}, receipt \in Receipts :
    /\ (shape # "ok" => cid = UnknownCid /\ rc = 0 /\ receipt = "")
    /\ (rc # 0 => receipt = "")
    /\ Free(r)
    /\ started < MaxReqs
    /\ started' = started + 1
    /\ LET in == [shape |-> shape, CheckoutRequestID |-> cid, ResultCode |-> rc,
                  receipt |-> receipt,
                  redelivery |-> shape = "ok" /\ rc = 0 /\ cid \in 1..Len(stk)
                                 /\ receipt \in stk[cid].delivered]
           new == [Idle EXCEPT !.kind = "mpesaCallback", !.pc = "findOrder", !.in = in]
       IN reqs' = [reqs EXCEPT ![r] =
                     IF shape # "ok"
                       THEN [new EXCEPT !.pc = "done",
                                        !.res = [status |-> 200, ResultCode |-> 1,
                                                 ResultDesc |-> "Invalid callback data"]]
                       ELSE new]
    /\ StoreUnchanged

\* Order.findOne({ mpesaCheckoutId: CheckoutRequestID })
MpesaCallbackFindOrder(r) ==
  /\ At(r, "mpesaCallback", "findOrder")
  /\ LET id == FindByMpesaCheckoutId(reqs[r].in.CheckoutRequestID)
     IN IF id = NoId
          THEN /\ reqs' = Accepted(r)
               /\ stk' = Ack(r)
          ELSE /\ reqs' = [reqs EXCEPT ![r].order = id, ![r].orderDoc = orders[id],
                                      ![r].pc = IF reqs[r].in.ResultCode = 0
                                                  THEN "markAsPaid"
                                                  ELSE "markPaymentFailed"]
               /\ UNCHANGED stk
  /\ UNCHANGED <<products, carts, orders, started>>

\* where the stock loop goes after line idx: the next line, or the cart
AfterLine(r, idx) ==
  IF idx < Len(reqs[r].orderDoc.items)
    THEN [reqs EXCEPT ![r].pc = "findProduct", ![r].idx = idx + 1]
    ELSE [reqs EXCEPT ![r].pc = "findCart"]

\* await order.markAsPaid(CheckoutRequestID, mpesaReceiptNumber)
MpesaCallbackMarkAsPaid(r) ==
  /\ At(r, "mpesaCallback", "markAsPaid")
  /\ LET id == reqs[r].order
         old == reqs[r].orderDoc
         new == markAsPaid(old, reqs[r].in.CheckoutRequestID, reqs[r].in.receipt)
     IN IF SaveOrderOk(id, old, new)
          THEN /\ orders' = SaveOrder(id, old, new)
               /\ reqs' = AfterLine(r, 0)
               /\ UNCHANGED stk
          ELSE /\ reqs' = Accepted(r)            \* DocumentNotFoundError -> catch
               /\ stk' = Ack(r)
               /\ UNCHANGED orders
  /\ UNCHANGED <<products, carts, started>>

\* Product.findById(item.product) for line idx of the order
MpesaCallbackFindProduct(r) ==
  /\ At(r, "mpesaCallback", "findProduct")
  /\ LET item == reqs[r].orderDoc.items[reqs[r].idx]
     IN reqs' = [reqs EXCEPT ![r].productDoc = products[item.product],
                             ![r].pc = "decreaseStock"]
  /\ UNCHANGED started
  /\ StoreUnchanged

\* await product.decreaseStock(item.quantity): a refusal is only logged
MpesaCallbackDecreaseStock(r) ==
  /\ At(r, "mpesaCallback", "decreaseStock")
  /\ LET item == reqs[r].orderDoc.items[reqs[r].idx]
         d == decreaseStock(reqs[r].productDoc, item.quantity)
     IN /\ products' = IF d.write THEN [products EXCEPT ![item.product].stock = d.stock]
                       ELSE products
        /\ reqs' = AfterLine(r, reqs[r].idx)
  /\ UNCHANGED <<carts, orders, stk, started>>

\* Cart.findOne({ user: order.user })
MpesaCallbackFindCart(r) ==
  /\ At(r, "mpesaCallback", "findCart")
  /\ LET cart == carts[reqs[r].orderDoc.user]
     IN IF cart.exists
          THEN /\ reqs' = [reqs EXCEPT ![r].cartDoc = cart, ![r].pc = "clearCart"]
               /\ UNCHANGED stk
          ELSE /\ reqs' = Accepted(r)
               /\ stk' = Ack(r)
  /\ UNCHANGED <<products, carts, orders, started>>

\* await cart.clearCart(), then the acknowledgment (a VersionError is caught and
\* acknowledged all the same)
MpesaCallbackClearCart(r) ==
  /\ At(r, "mpesaCallback", "clearCart")
  /\ LET u == reqs[r].orderDoc.user
         doc == reqs[r].cartDoc
     IN carts' = IF ClearCartConflict(u, doc) THEN carts ELSE ClearCart(u, doc)
  /\ reqs' = Accepted(r)
  /\ stk' = Ack(r)
  /\ UNCHANGED <<products, orders, started>>

\* await order.markPaymentFailed(), then the acknowledgment
MpesaCallbackMarkPaymentFailed(r) ==
  /\ At(r, "mpesaCallback", "markPaymentFailed")
  /\ LET id == reqs[r].order
         old == reqs[r].orderDoc
         new == markPaymentFailed(old)
     IN orders' = IF SaveOrderOk(id, old, new) THEN SaveOrder(id, old, new) ELSE orders
  /\ reqs' = Accepted(r)
  /\ UNCHANGED <<products, carts, stk, started>>

\* ============================================================= mpesaTimeout
\* POST /timeout: without a CheckoutRequestID the handler answers at once
MpesaTimeoutStart(r) ==
  \E cid \in (0..Len(stk)) \cup {UnknownCid} :
    /\ Free(r)
    /\ started < MaxReqs
    /\ started' = started + 1
    /\ LET new == [Idle EXCEPT !.kind = "mpesaTimeout", !.pc = "findOrder",
                               !.in = [CheckoutRequestID |-> cid]]
       IN reqs' = [reqs EXCEPT ![r] =
                     IF cid = NoId
                       THEN [new EXCEPT !.pc = "done",
                                        !.res = [status |-> 200, ResultCode |-> 0,
                                                 ResultDesc |-> "Accepted"]]
                       ELSE new]
    /\ StoreUnchanged

\* Order.findOne({ mpesaCheckoutId: CheckoutRequestID })
MpesaTimeoutFindOrder(r) ==
  /\ At(r, "mpesaTimeout", "findOrder")
  /\ LET id == FindByMpesaCheckoutId(reqs[r].in.CheckoutRequestID)
     IN reqs' = IF id = NoId THEN Accepted(r)
                ELSE [reqs EXCEPT ![r].order = id, ![r].orderDoc = orders[id],
                                  ![r].pc = "markPaymentFailed"]
  /\ UNCHANGED started
  /\ StoreUnchanged

\* await order.markPaymentFailed(); a failed save leaves through asyncHandler to
\* errorHandler, which answers 500
MpesaTimeoutMarkPaymentFailed(r) ==
  /\ At(r, "mpesaTimeout", "markPaymentFailed")
  /\ LET id == reqs[r].order
         old == reqs[r].orderDoc
         new == markPaymentFailed(old)
     IN IF SaveOrderOk(id, old, new)
          THEN /\ orders' = SaveOrder(id, old, new)
               /\ reqs' = Accepted(r)
          ELSE /\ reqs' = Reply(r, 500)
               /\ UNCHANGED orders
  /\ UNCHANGED <<products, carts, stk, started>>

\* ============================================================= payment adapter
\* initiateMpesaStkPush(amount, phone, orderId): the outcomes it can have.  The
\* phone is a local number with a leading 0 of phoneLen digits, which
\* formatPhoneNumber turns into 254 + the rest; configuration and network are
\* the environment's choice
StkOutcomes(amount, phoneLen) ==
  {"config"} \cup
    (IF phoneLen - 1 + 3 # 12 THEN {"phone"}
     ELSE IF amount < 1 THEN {"amount"}
     ELSE {"network", "rejected", "ok"})

\* the statusCode of the AppError each failure is thrown as
StkError(outcome) ==
  CASE outcome = "config" -> 500
    [] outcome = "phone" -> 400
    [] outcome = "amount" -> 400
    [] outcome = "network" -> 500
    [] outcome = "rejected" -> 400

\* ============================================================= Order creation
PaymentMethod == {"mpesa", "credit_card", "paypal", "cash"}
PaymentInputs == {"Mpesa", "MPESA", "cash", "credit_card", "card"}
PhoneLens == {0, 9, 10, 11}

\* what a client can send to POST /api/cart/checkout
CheckoutInputs ==
  {in \in [user : Users, paymentMethod : PaymentInputs, addressOk : BOOLEAN,
           phoneLen : PhoneLens] :
     /\ (in.paymentMethod \notin {"Mpesa", "MPESA"} => in.phoneLen = 10)
     /\ (in.paymentMethod = "MPESA" => in.phoneLen = 10)
     /\ (~in.addressOk => in.paymentMethod = "cash")}

\* checkoutCart step 1: Mpesa / mpesa / MPESA all mean PaymentMethod.MPESA
NormalizePaymentMethod(input) ==
  IF input \in {"mpesa", "Mpesa", "MPESA"} THEN "mpesa" ELSE input

\* OrderSchema.pre('save') for a new order: the number after the one of the last
\* order created (orders are kept in creation order), 1 when there is none
NextOrderNumber ==
  LET live == {i \in 1..Len(orders) : orders[i].exists}
  IN IF live = {} THEN 1
     ELSE orders[CHOOSE i \in live : \A j \in live : j <= i].orderNumber + 1

\* the document Order.create() builds from the cart
NewOrder(user, cart, paymentMethod, orderNumber) ==
  [exists |-> TRUE, user |-> user, items |-> cart.items,
   totalAmount |-> cart.totalAmount, status |-> "pending",
   paymentMethod |-> paymentMethod, paymentStatus |-> "pending",
   transactionId |-> NoId, mpesaCheckoutId |-> NoId, mpesaReceiptNumber |-> "",
   orderNumber |-> orderNumber]

\* orderNumber is a unique index: the insert is refused when the number is taken
OrderNumberTaken(n) == \E i \in 1..Len(orders) : orders[i].exists /\ orders[i].orderNumber = n

\* checkouts that will still insert an order
Creating == {r \in Slots : reqs[r].kind \in {"checkoutCart", "checkoutCartB"}
                           /\ reqs[r].pc \in {"loadCart", "genNumber", "insert"}}

\* mutant: every line passes
FirstUnavailableNone(items) == 0

\* the first cart line whose product is inactive or short of stock, 0 when none
FirstUnavailable(items) ==
  LET bad == {i \in 1..Len(items) :
                \/ ~products[items[i].product].isActive
                \/ /\ products[items[i].product].stock # Unlimited
                   /\ products[items[i].product].stock < items[i].quantity}
  IN IF bad = {} THEN 0 ELSE CHOOSE i \in bad : \A j \in bad : i <= j

\* ============================================================= checkoutCart
\* POST /api/cart/checkout: payment method, shipping address and phone are
\* validated before anything is read from the store
CheckoutCartStart(r) ==
  \E in \in CheckoutInputs :
    /\ Free(r)
    /\ started < MaxReqs
    /\ Len(orders) + Cardinality(Creating) < MaxOrders
    /\ started' = started + 1
    /\ LET pm == NormalizePaymentMethod(in.paymentMethod)
           new == [Idle EXCEPT !.kind = "checkoutCart", !.pc = "loadCart",
                               !.in = [in EXCEPT !.paymentMethod = pm]]
           bad == [new EXCEPT !.pc = "done",
                              !.res = [status |-> 400, ResultCode |-> 0 - 1,
                                       ResultDesc |-> ""]]
       IN reqs' = [reqs EXCEPT ![r] =
                     IF pm \notin PaymentMethod THEN bad
                     ELSE IF ~in.addressOk THEN bad
                     ELSE IF pm = "mpesa" /\ in.phoneLen = 0 THEN bad
                     ELSE IF pm = "mpesa" /\ in.phoneLen < 10 THEN bad
                     ELSE new]
    /\ StoreUnchanged

\* Cart.findOne({ user }).populate('items.product'), then the empty-cart,
\* availability and minimum-amount checks
CheckoutCartLoadCart(r) ==
  /\ At(r, "checkoutCart", "loadCart")
  /\ LET in == reqs[r].in
         cart == carts[in.user]
     IN reqs' =
          IF ~cart.exists \/ Len(cart.items) = 0 THEN Reply(r, 400)
          ELSE IF FirstUnavailable(cart.items) # 0 THEN Reply(r, 400)
          ELSE IF in.paymentMethod = "mpesa" /\ cart.totalAmount < 1 THEN Reply(r, 400)
          ELSE [reqs EXCEPT ![r].cartDoc = cart, ![r].pc = "genNumber"]
  /\ UNCHANGED started
  /\ StoreUnchanged

\* Order.create, pre-save hook: the last order is read and the number chosen
CheckoutCartGenNumber(r) ==
  /\ At(r, "checkoutCart", "genNumber")
  /\ reqs' = [reqs EXCEPT ![r].pc = "insert",
                          ![r].orderDoc = NewOrder(reqs[r].in.user, reqs[r].cartDoc,
                                                   reqs[r].in.paymentMethod,
                                                   NextOrderNumber)]
  /\ UNCHANGED started
  /\ StoreUnchanged

\* mutant: the cart is cleared right after the insert, whatever the payment method
CheckoutCartInsertThenClears(r) ==
  /\ At(r, "checkoutCart", "insert")
  /\ IF OrderNumberTaken(reqs[r].orderDoc.orderNumber)
       THEN /\ reqs' = Reply(r, 400)
            /\ UNCHANGED <<orders, carts>>
       ELSE /\ orders' = Append(orders, reqs[r].orderDoc)
            /\ carts' = ClearCart(reqs[r].in.user, reqs[r].cartDoc)
            /\ reqs' = [reqs EXCEPT ![r].order = Len(orders) + 1,
                                    ![r].pc = IF reqs[r].in.paymentMethod = "mpesa"
                                                THEN "stkPush" ELSE "clearCart"]
  /\ UNCHANGED <<products, stk, started>>

\* Order.create, the insert; a duplicate order number is error 11000, which
\* errorHandler answers with 400
CheckoutCartInsert(r) ==
  /\ At(r, "checkoutCart", "insert")
  /\ IF OrderNumberTaken(reqs[r].orderDoc.orderNumber)
       THEN /\ reqs' = Reply(r, 400)
            /\ UNCHANGED orders
       ELSE /\ orders' = Append(orders, reqs[r].orderDoc)
            /\ reqs' = [reqs EXCEPT ![r].order = Len(orders) + 1,
                                    ![r].pc = IF reqs[r].in.paymentMethod = "mpesa"
                                                THEN "stkPush" ELSE "clearCart"]
  /\ UNCHANGED <<products, carts, stk, started>>

\* await initiateMpesaStkPush(totalAmount, phone, order._id): an accepted push is
\* recorded by the provider under a fresh CheckoutRequestID
CheckoutCartStkPush(r) ==
  /\ At(r, "checkoutCart", "stkPush")
  /\ \E outcome \in StkOutcomes(reqs[r].orderDoc.totalAmount, reqs[r].in.phoneLen) :
       IF outcome = "ok"
         THEN /\ stk' = Append(stk, [order |-> reqs[r].order, delivered |-> {}])
              /\ reqs' = [reqs EXCEPT ![r].cid = Len(stk) + 1, ![r].stkResult = outcome,
                                      ![r].pc = "saveCheckoutId"]
         ELSE /\ reqs' = [reqs EXCEPT ![r].err = StkError(outcome),
                                      ![r].stkResult = outcome, ![r].pc = "deleteOrder"]
              /\ UNCHANGED stk
  /\ UNCHANGED <<products, carts, orders, started>>

\* order.transactionId = mpesaResult.CheckoutRequestID; await order.save().  A
\* failed save is caught by the same try block as a failed push
CheckoutCartSaveCheckoutId(r) ==
  /\ At(r, "checkoutCart", "saveCheckoutId")
  /\ LET id == reqs[r].order
         old == reqs[r].orderDoc
         new == [old EXCEPT !.transactionId = reqs[r].cid]
     IN IF SaveOrderOk(id, old, new)
          THEN /\ orders' = SaveOrder(id, old, new)
               /\ reqs' = Reply(r, 201)
          ELSE /\ reqs' = [reqs EXCEPT ![r].err = 500, ![r].pc = "deleteOrder"]
               /\ UNCHANGED orders
  /\ UNCHANGED <<products, carts, stk, started>>

\* mutant: the error is thrown on without the compensating delete
CheckoutCartDeleteOrderKeeps(r) ==
  /\ At(r, "checkoutCart", "deleteOrder")
  /\ reqs' = Reply(r, reqs[r].err)
  /\ UNCHANGED <<products, carts, orders, stk, started>>

\* catch: await Order.findByIdAndDelete(order._id), then the error is thrown on
CheckoutCartDeleteOrder(r) ==
  /\ At(r, "checkoutCart", "deleteOrder")
  /\ orders' = [orders EXCEPT ![reqs[r].order].exists = FALSE]
  /\ reqs' = Reply(r, reqs[r].err)
  /\ UNCHANGED <<products, carts, stk, started>>

\* not M-Pesa: await cart.clearCart() on the cart loaded at the start
CheckoutCartClearCart(r) ==
  /\ At(r, "checkoutCart", "clearCart")
  /\ LET u == reqs[r].in.user
         doc == reqs[r].cartDoc
     IN IF ClearCartConflict(u, doc)
          THEN /\ reqs' = Reply(r, 500)          \* VersionError
               /\ UNCHANGED carts
          ELSE /\ carts' = ClearCart(u, doc)
               /\ reqs' = IF reqs[r].in.paymentMethod = "cash"
                            THEN [reqs EXCEPT ![r].pc = "saveStatus"]
                            ELSE Reply(r, 201)
  /\ UNCHANGED <<products, orders, stk, started>>

\* mutant: the cash order is left as it was created
CheckoutCartSaveStatusSkips(r) ==
  /\ At(r, "checkoutCart", "saveStatus")
  /\ reqs' = Reply(r, 201)
  /\ UNCHANGED <<products, carts, orders, stk, started>>

\* cash: order.status = PROCESSING; await order.save()
CheckoutCartSaveStatus(r) ==
  /\ At(r, "checkoutCart", "saveStatus")
  /\ LET id == reqs[r].order
         old == reqs[r].orderDoc
         new == [old EXCEPT !.status = "processing"]
     IN IF SaveOrderOk(id, old, new)
          THEN /\ orders' = SaveOrder(id, old, new)
               /\ reqs' = Reply(r, 201)
          ELSE /\ reqs' = Reply(r, 500)
               /\ UNCHANGED orders
  /\ UNCHANGED <<products, carts, stk, started>>

\* ============================================================= checkoutCart (B)
\* The checkoutCart of controllers/cart.controller.ts, the variant of the handler
\* that stores the CheckoutRequestID in mpesaCheckoutId.
\* Only the spelling 'Mpesa' is mapped to PaymentMethod.MPESA here
NormalizePaymentMethodB(input) == IF input = "Mpesa" THEN "mpesa" ELSE input

CheckoutCartBStart(r) ==
  \E in \in CheckoutInputs :
    /\ Free(r)
    /\ started < MaxReqs
    /\ Len(orders) + Cardinality(Creating) < MaxOrders
    /\ started' = started + 1
    /\ LET pm == NormalizePaymentMethodB(in.paymentMethod)
           new == [Idle EXCEPT !.kind = "checkoutCartB", !.pc = "loadCart",
                               !.in = [in EXCEPT !.paymentMethod = pm]]
           bad == [new EXCEPT !.pc = "done",
                              !.res = [status |-> 400, ResultCode |-> 0 - 1,
                                       ResultDesc |-> ""]]
       IN reqs' = [reqs EXCEPT ![r] =
                     IF pm \notin PaymentMethod THEN bad
                     ELSE IF ~in.addressOk THEN bad
                     ELSE new]
    /\ StoreUnchanged

\* Cart.findOne({ user }), the empty-cart check and the M-Pesa minimum
CheckoutCartBLoadCart(r) ==
  /\ At(r, "checkoutCartB", "loadCart")
  /\ LET in == reqs[r].in
         cart == carts[in.user]
     IN reqs' =
          IF ~cart.exists \/ Len(cart.items) = 0 THEN Reply(r, 400)
          ELSE IF in.paymentMethod = "mpesa" /\ cart.totalAmount <= 1 THEN Reply(r, 400)
          ELSE [reqs EXCEPT ![r].cartDoc = cart, ![r].pc = "genNumber"]
  /\ UNCHANGED started
  /\ StoreUnchanged

\* Order.create: validation (shippingAddress.phone is required), then the
\* pre-save hook reads the last order and replaces the 'TEMP' number
CheckoutCartBGenNumber(r) ==
  /\ At(r, "checkoutCartB", "genNumber")
  /\ reqs' = IF reqs[r].in.phoneLen = 0 THEN Reply(r, 400)
             ELSE [reqs EXCEPT ![r].pc = "insert",
                               ![r].orderDoc = NewOrder(reqs[r].in.user, reqs[r].cartDoc,
                                                        reqs[r].in.paymentMethod,
                                                        NextOrderNumber)]
  /\ UNCHANGED started
  /\ StoreUnchanged

\* Order.create, the insert
CheckoutCartBInsert(r) ==
  /\ At(r, "checkoutCartB", "insert")
  /\ IF OrderNumberTaken(reqs[r].orderDoc.orderNumber)
       THEN /\ reqs' = Reply(r, 400)
            /\ UNCHANGED orders
       ELSE /\ orders' = Append(orders, reqs[r].orderDoc)
            /\ reqs' = [reqs EXCEPT ![r].order = Len(orders) + 1,
                                    ![r].pc = IF reqs[r].in.paymentMethod = "mpesa"
                                                THEN "stkPush" ELSE "clearCart"]
  /\ UNCHANGED <<products, carts, stk, started>>

\* await initiateMpesaStkPush(totalAmount, phoneForStk, order._id)
CheckoutCartBStkPush(r) ==
  /\ At(r, "checkoutCartB", "stkPush")
  /\ \E outcome \in StkOutcomes(reqs[r].orderDoc.totalAmount, reqs[r].in.phoneLen) :
       IF outcome = "ok"
         THEN /\ stk' = Append(stk, [order |-> reqs[r].order, delivered |-> {}])
              /\ reqs' = [reqs EXCEPT ![r].cid = Len(stk) + 1, ![r].stkResult = outcome,
                                      ![r].pc = "saveCheckoutId"]
         ELSE /\ reqs' = [reqs EXCEPT ![r].err = 500, ![r].stkResult = outcome,
                                      ![r].pc = "deleteOrder"]
              /\ UNCHANGED stk
  /\ UNCHANGED <<products, carts, orders, started>>

\* order.mpesaCheckoutId = paymentResult.CheckoutRequestID; await order.save()
CheckoutCartBSaveCheckoutId(r) ==
  /\ At(r, "checkoutCartB", "saveCheckoutId")
  /\ LET id == reqs[r].order
         old == reqs[r].orderDoc
         new == [old EXCEPT !.mpesaCheckoutId = reqs[r].cid]
     IN IF SaveOrderOk(id, old, new)
          THEN /\ orders' = SaveOrder(id, old, new)
               /\ reqs' = Reply(r, 201)
          ELSE /\ reqs' = [reqs EXCEPT ![r].err = 500, ![r].pc = "deleteOrder"]
               /\ UNCHANGED orders
  /\ UNCHANGED <<products, carts, stk, started>>

\* catch: await Order.findByIdAndDelete(order._id), then AppError 500
CheckoutCartBDeleteOrder(r) ==
  /\ At(r, "checkoutCartB", "deleteOrder")
  /\ orders' = [orders EXCEPT ![reqs[r].order].exists = FALSE]
  /\ reqs' = Reply(r, 500)
  /\ UNCHANGED <<products, carts, stk, started>>

\* not M-Pesa: await cart.clearCart()
CheckoutCartBClearCart(r) ==
  /\ At(r, "checkoutCartB", "clearCart")
  /\ LET u == reqs[r].in.user
         doc == reqs[r].cartDoc
     IN IF ClearCartConflict(u, doc)
          THEN /\ reqs' = Reply(r, 500)
               /\ UNCHANGED carts
          ELSE /\ carts' = ClearCart(u, doc)
               /\ reqs' = Reply(r, 201)
  /\ UNCHANGED <<products, orders, stk, started>>

\* ============================================================= store failures
\* mutant: no catch block, the error leaves through asyncHandler
CatchRethrows(r) == asyncHandler(r)

\* try { ... } catch (error) of mpesaCallback: the error is logged and the
\* callback acknowledged
Catch(r) == [Accepted(r) EXCEPT ![r].threw = TRUE]

\* the store operation a handler is waiting on rejects (connection lost, timeout):
\* nothing is written, and the error goes to the nearest catch
StoreThrows(r) ==
  /\ reqs[r].pc \notin {"idle", "done", "stkPush"}
  /\ reqs' =
       IF reqs[r].kind = "mpesaCallback" THEN Catch(r)
       ELSE IF reqs[r].kind \in {"checkoutCart", "checkoutCartB"}
               /\ reqs[r].pc = "saveCheckoutId"
         THEN [reqs EXCEPT ![r].err = 500, ![r].threw = TRUE, ![r].pc = "deleteOrder"]
       ELSE asyncHandler(r)
  /\ stk' = IF reqs[r].kind = "mpesaCallback" THEN Ack(r) ELSE stk
  /\ UNCHANGED <<products, carts, orders, started>>

\* ============================================================= specifications
AddToCart(r) ==
  \/ AddToCartStart(r)
  \/ AddToCartFindProduct(r)
  \/ AddToCartFindCart(r)
  \/ AddToCartCreateCart(r)
  \/ AddToCartAddItem(r)

CheckoutCart(r) ==
  \/ CheckoutCartStart(r)
  \/ CheckoutCartLoadCart(r)
  \/ CheckoutCartGenNumber(r)
  \/ CheckoutCartInsert(r)
  \/ CheckoutCartStkPush(r)
  \/ CheckoutCartSaveCheckoutId(r)
  \/ CheckoutCartDeleteOrder(r)
  \/ CheckoutCartClearCart(r)
  \/ CheckoutCartSaveStatus(r)

CheckoutCartB(r) ==
  \/ CheckoutCartBStart(r)
  \/ CheckoutCartBLoadCart(r)
  \/ CheckoutCartBGenNumber(r)
  \/ CheckoutCartBInsert(r)
  \/ CheckoutCartBStkPush(r)
  \/ CheckoutCartBSaveCheckoutId(r)
  \/ CheckoutCartBDeleteOrder(r)
  \/ CheckoutCartBClearCart(r)

MpesaCallback(r) ==
  \/ MpesaCallbackStart(r)
  \/ MpesaCallbackFindOrder(r)
  \/ MpesaCallbackMarkAsPaid(r)
  \/ MpesaCallbackFindProduct(r)
  \/ MpesaCallbackDecreaseStock(r)
  \/ MpesaCallbackFindCart(r)
  \/ MpesaCallbackClearCart(r)
  \/ MpesaCallbackMarkPaymentFailed(r)

MpesaTimeout(r) ==
  \/ MpesaTimeoutStart(r)
  \/ MpesaTimeoutFindOrder(r)
  \/ MpesaTimeoutMarkPaymentFailed(r)

UpdateCartItem(r) ==
  \/ UpdateCartItemStart(r)
  \/ UpdateCartItemFindCart(r)
  \/ UpdateCartItemUpdateQuantity(r)

RemoveFromCart(r) ==
  \/ RemoveFromCartStart(r)
  \/ RemoveFromCartFindCart(r)
  \/ RemoveFromCartRemoveItem(r)

ClearCartRequest(r) ==
  \/ ClearCartStart(r)
  \/ ClearCartFindCart(r)
  \/ ClearCartClearCart(r)

DecreaseStock(r) ==
  \/ DecreaseStockStart(r)
  \/ DecreaseStockSave(r)

IncreaseStock(r) ==
  \/ IncreaseStockStart(r)
  \/ IncreaseStockSave(r)

UpdateStatus(r) ==
  \/ UpdateStatusStart(r)
  \/ UpdateStatusSave(r)

CancelOrder(r) ==
  \/ CancelOrderStart(r)
  \/ CancelOrderCheck(r)
  \/ CancelOrderFindProduct(r)
  \/ CancelOrderRestore(r)
  \/ CancelOrderSave(r)

Handler(r) ==
  \/ AddToCart(r)
  \/ CheckoutCart(r)
  \/ CheckoutCartB(r)
  \/ MpesaCallback(r)
  \/ MpesaTimeout(r)

\* one request at a time: every handler runs to its response before the next starts
Next == Handler(1)

Spec == Init /\ [][Next]_vars

\* one request at a time, and any store operation may fail
NextFaults == Handler(1) \/ StoreThrows(1)

SpecFaults == Init /\ [][NextFaults]_vars

\* two deliveries of the provider side by side: slot 2 handles callbacks while
\* slot 1 handles cart, checkout and callback requests
NextDeliveries ==
  \/ AddToCart(1)
  \/ CheckoutCartB(1)
  \/ MpesaCallback(1)
  \/ MpesaCallback(2)

SpecDeliveries == Init /\ [][NextDeliveries]_vars

\* two checkouts side by side, after requests that fill the cart
NextCheckouts ==
  \/ AddToCart(1)
  \/ CheckoutCart(1)
  \/ CheckoutCart(2)

SpecCheckouts == Init /\ [][NextCheckouts]_vars

\* the life of orders, one request at a time: cart, checkout, payment result,
\* status changes and cancellation
NextOrders ==
  \/ AddToCart(1)
  \/ ClearCartRequest(1)
  \/ CheckoutCart(1)
  \/ CheckoutCartB(1)
  \/ MpesaCallback(1)
  \/ MpesaTimeout(1)
  \/ UpdateStatus(1)
  \/ CancelOrder(1)

SpecOrders == Init /\ [][NextOrders]_vars

\* cancellations one at a time, of orders that were paid or not and moved through
\* the statuses or not
NextCancel ==
  \/ AddToCart(1)
  \/ CheckoutCartB(1)
  \/ MpesaCallback(1)
  \/ UpdateStatus(1)
  \/ CancelOrder(1)

SpecCancel == Init /\ [][NextCancel]_vars

\* the store after a mobile-money checkout of a cart with a finite-stock line and a
\* service line: the order is pending under CheckoutRequestID 1, the cart still
\* holds the lines, no stock has been taken
OrderedCart(q) ==
  LET items == << [product |-> "shirt", quantity |-> q,
                   price |-> Catalog["shirt"].price, size |-> NoSel, color |-> NoSel],
                  [product |-> "webdev", quantity |-> 1,
                   price |-> Catalog["webdev"].price, size |-> NoSel, color |-> NoSel] >>
  IN [exists |-> TRUE, items |-> items, totalAmount |-> CalcTotal(items), v |-> 2]

InitOrdered ==
  /\ products = Catalog
  /\ \E u \in Users, q \in 1..MaxQty :
       /\ carts = [w \in Users |-> IF w = u THEN OrderedCart(q) ELSE NoCart]
       /\ orders = << [NewOrder(u, OrderedCart(q), "mpesa", 1)
                         EXCEPT !.mpesaCheckoutId = 1] >>
  /\ stk = << [order |-> 1, delivered |-> {}] >>
  /\ reqs = [r \in Slots |-> Idle]
  /\ started = 0

\* stock changes side by side: payment results, cancellations and direct
\* decreaseStock / increaseStock calls in two slots, on a store that holds an
\* order; one request fewer than MaxReqs is started
Budget == started' < MaxReqs

NextStock ==
  \/ MpesaCallback(1) /\ Budget
  \/ MpesaCallback(2) /\ Budget
  \/ CancelOrder(1) /\ Budget
  \/ CancelOrder(2) /\ Budget
  \/ DecreaseStock(2) /\ Budget
  \/ IncreaseStock(2) /\ Budget

SpecStock == InitOrdered /\ [][NextStock]_vars

\* checkouts one at a time on carts that are missing, emptied, or hold lines whose
\* product went out of sale or out of stock since it was added
NextCheckout ==
  \/ AddToCart(1)
  \/ ClearCartRequest(1)
  \/ CheckoutCart(1)
  \/ DecreaseStock(1)
  \/ Deactivate

SpecCheckout == Init /\ [][NextCheckout]_vars

\* cart requests one at a time, with catalog prices changing in between
NextCart ==
  \/ AddToCart(1)
  \/ UpdateCartItem(1)
  \/ RemoveFromCart(1)
  \/ ClearCartRequest(1)
  \/ SetPrice

SpecCart == Init /\ [][NextCart]_vars

\* cart requests of one user side by side
NextCarts ==
  \/ AddToCart(1) \/ AddToCart(2)
  \/ UpdateCartItem(1) \/ UpdateCartItem(2)
  \/ RemoveFromCart(1) \/ RemoveFromCart(2)

SpecCarts == Init /\ [][NextCarts]_vars

\* ============================================================= properties
InFlight(r) == reqs[r].pc \notin {"idle", "done"}
Finished(r, kind) == reqs[r].kind = kind /\ reqs[r].pc = "done"
AcceptedRes == [status |-> 200, ResultCode |-> 0, ResultDesc |-> "Accepted"]
IsCheckout(r) == reqs[r].kind \in {"checkoutCart", "checkoutCartB"}

RECURSIVE QtyOf(_, _)
\* the quantity of product p over the lines of an order
QtyOf(items, p) ==
  IF items = <<>> THEN 0
  ELSE (IF Head(items).product = p THEN Head(items).quantity ELSE 0) + QtyOf(Tail(items), p)

RECURSIVE PaidQty(_, _)
\* the quantity of product p over the first n orders whose payment is completed
PaidQty(n, p) ==
  IF n = 0 THEN 0
  ELSE (IF orders[n].exists /\ orders[n].paymentStatus = "completed"
          THEN QtyOf(orders[n].items, p) ELSE 0) + PaidQty(n - 1, p)

\* C1: a success callback delivered again after a delivery of the same payload was
\* acknowledged changes no order, product or cart and is acknowledged with success.
C1_SecondDeliveryChangesNothing ==
  [][\A r \in Slots :
       (/\ InFlight(r)
        /\ reqs[r].kind = "mpesaCallback"
        /\ reqs[r].in.redelivery
        /\ reqs'[r] # reqs[r])
       => /\ UNCHANGED <<products, carts, orders>>
          /\ (reqs'[r].pc = "done" => reqs'[r].res = AcceptedRes)]_vars

\* C2: when two deliveries of the same success callback are handled side by side
\* (both found the order before either marked it paid), the stock of every finite
\* product is still reduced at most once per paid order.
C2_ConcurrentDeliveriesDecrementOnce ==
  (/\ reqs[1].kind = "mpesaCallback" /\ reqs[2].kind = "mpesaCallback"
   /\ reqs[1].in = reqs[2].in
   /\ reqs[1].in.shape = "ok" /\ reqs[1].in.ResultCode = 0
   /\ reqs[1].order # NoId /\ reqs[2].order = reqs[1].order
   /\ reqs[1].orderDoc.paymentStatus = "pending"
   /\ reqs[2].orderDoc.paymentStatus = "pending")
  => \A p \in Products :
       products[p].stock # Unlimited
         => products[p].stock >= InitStock - PaidQty(Len(orders), p)

\* C3: when initiateMpesaStkPush fails in a checkout, then at the end of the request
\* the order it created is gone, the cart holds the items and total it had when the
\* checkout read it, and the caller gets an error.
C3_StkFailureRollsBack ==
  \A r \in Slots :
    (IsCheckout(r) /\ reqs[r].pc = "done" /\ reqs[r].stkResult \notin {"", "ok"})
    => /\ reqs[r].order # NoId
       /\ ~orders[reqs[r].order].exists
       /\ carts[reqs[r].in.user].items = reqs[r].cartDoc.items
       /\ carts[reqs[r].in.user].totalAmount = reqs[r].cartDoc.totalAmount
       /\ reqs[r].res.status >= 400

C3_Witness ==
  \E r \in Slots :
    /\ Finished(r, "checkoutCart")
    /\ reqs[r].stkResult = "network"
    /\ carts[reqs[r].in.user].items # <<>>

\* C4: every callback that has Body.stkCallback is answered 200 with ResultCode 0
\* 'Accepted', whatever happened to the order and whichever store operation failed.
C4_WellFormedCallbackAccepted ==
  \A r \in Slots :
    (Finished(r, "mpesaCallback") /\ reqs[r].in.shape = "ok") => reqs[r].res = AcceptedRes

C4_Witness ==
  \E r \in Slots :
    /\ Finished(r, "mpesaCallback")
    /\ reqs[r].in.shape = "ok"
    /\ reqs[r].in.ResultCode = 0
    /\ reqs[r].order # NoId
    /\ reqs[r].threw

\* C5: a callback without Body or without Body.stkCallback is answered 200 with
\* ResultCode 0 'Accepted' and changes no order, product or cart.
C5_MalformedCallbackAccepted ==
  [][\A r \in Slots :
       (/\ reqs'[r] # reqs[r]
        /\ reqs'[r].kind = "mpesaCallback"
        /\ reqs'[r].in.shape # "ok")
       => /\ UNCHANGED <<products, carts, orders>>
          /\ reqs'[r].pc = "done"
          /\ reqs'[r].res = AcceptedRes]_vars

\* C6: the timeout webhook is always answered 200 with ResultCode 0 'Accepted', also
\* when the order lookup or markPaymentFailed fails.
C6_TimeoutAlwaysAccepted ==
  \A r \in Slots : Finished(r, "mpesaTimeout") => reqs[r].res = AcceptedRes

\* C7: after a mobile-money checkout that ended well, the lookup the webhooks use
\* finds, under the CheckoutRequestID the adapter returned, the order of that
\* checkout.
C7_CallbackFindsTheOrder ==
  \A r \in Slots :
    (/\ IsCheckout(r) /\ reqs[r].pc = "done"
     /\ reqs[r].in.paymentMethod = "mpesa"
     /\ reqs[r].res.status = 201)
    => FindByMpesaCheckoutId(reqs[r].cid) = reqs[r].order

\* C8: a mobile-money checkout changes no cart and no stock, and when it ends well
\* its order is pending / pending and holds the CheckoutRequestID; a webhook changes
\* a cart only while handling a success callback whose order it found and marked
\* paid.
C8_MpesaCheckoutKeepsCart ==
  [][\A r \in Slots :
       (InFlight(r) /\ reqs'[r] # reqs[r])
       => /\ (IsCheckout(r) /\ reqs[r].in.paymentMethod = "mpesa")
               => /\ UNCHANGED <<products, carts>>
                  /\ (reqs'[r].pc = "done" /\ reqs'[r].res.status = 201)
                       => LET o == orders'[reqs[r].order]
                          IN /\ o.exists
                             /\ o.status = "pending"
                             /\ o.paymentStatus = "pending"
                             /\ reqs[r].cid # NoId
                             /\ (o.transactionId = reqs[r].cid
                                   \/ o.mpesaCheckoutId = reqs[r].cid)
          /\ (reqs[r].kind \in {"mpesaCallback", "mpesaTimeout"} /\ carts' # carts)
               => /\ reqs[r].kind = "mpesaCallback"
                  /\ reqs[r].in.ResultCode = 0
                  /\ reqs[r].order # NoId
                  /\ orders[reqs[r].order].paymentStatus = "completed"]_vars

C8_Witness ==
  \E r \in Slots :
    /\ Finished(r, "checkoutCart")
    /\ reqs[r].in.paymentMethod = "mpesa"
    /\ reqs[r].res.status = 201
    /\ carts[reqs[r].in.user].items # <<>>

\* a success callback that found its order with status pending
PendingSuccess(r) ==
  /\ reqs[r].kind = "mpesaCallback"
  /\ reqs[r].in.ResultCode = 0
  /\ reqs[r].order # NoId
  /\ reqs[r].orderDoc.status = "pending"

\* C9: a success callback for a pending order takes, for each line, exactly the
\* line's quantity from a finite stock that suffices (and nothing otherwise), and
\* ends with the order paid / completed, the owner's cart empty with total 0 and
\* the answer 200 with ResultCode 0.
C9_SuccessCallbackReconciles ==
  [][\A r \in Slots :
       (InFlight(r) /\ PendingSuccess(r) /\ reqs'[r] # reqs[r])
       => /\ IF reqs[r].pc = "decreaseStock"
               THEN LET item == reqs[r].orderDoc.items[reqs[r].idx]
                        pre == products[item.product].stock
                    IN products' =
                         [products EXCEPT ![item.product].stock =
                            IF pre # Unlimited /\ pre >= item.quantity
                              THEN pre - item.quantity ELSE pre]
               ELSE products' = products
          /\ reqs'[r].pc = "done"
               => /\ reqs[r].idx = Len(reqs[r].orderDoc.items)
                  /\ orders'[reqs[r].order].status = "paid"
                  /\ orders'[reqs[r].order].paymentStatus = "completed"
                  /\ carts'[reqs[r].orderDoc.user].items = <<>>
                  /\ carts'[reqs[r].orderDoc.user].totalAmount = 0
                  /\ reqs'[r].res = AcceptedRes]_vars

C9_Witness ==
  \E r \in Slots :
    /\ reqs[r].pc = "done"
    /\ PendingSuccess(r)
    /\ products["shirt"].stock = InitStock - QtyOf(reqs[r].orderDoc.items, "shirt")
    /\ QtyOf(reqs[r].orderDoc.items, "shirt") > 1
    /\ orders[reqs[r].order].status = "paid"

\* a failure callback or a timeout that found its order with status pending
PendingFailure(r) ==
  /\ \/ reqs[r].kind = "mpesaCallback" /\ reqs[r].in.ResultCode # 0
     \/ reqs[r].kind = "mpesaTimeout"
  /\ reqs[r].order # NoId
  /\ reqs[r].orderDoc.status = "pending"

\* C10: a failure callback or a timeout for a pending order sets paymentStatus to
\* failed and nothing else: status stays pending, stock, carts and the order's
\* items and total stay as they are, and the answer is 200.
C10_FailureOnlyMarksPayment ==
  [][\A r \in Slots :
       (InFlight(r) /\ PendingFailure(r) /\ reqs'[r] # reqs[r])
       => /\ UNCHANGED <<products, carts>>
          /\ orders' = [orders EXCEPT ![reqs[r].order].paymentStatus =
                                         orders'[reqs[r].order].paymentStatus]
          /\ reqs'[r].pc = "done"
               => /\ orders'[reqs[r].order].paymentStatus = "failed"
                  /\ orders'[reqs[r].order].status = "pending"
                  /\ reqs'[r].res.status = 200]_vars

C10_Witness ==
  \E r \in Slots :
    /\ reqs[r].pc = "done"
    /\ PendingFailure(r)
    /\ reqs[r].kind = "mpesaTimeout"
    /\ orders[reqs[r].order].paymentStatus = "failed"
    /\ carts[reqs[r].orderDoc.user].items # <<>>

\* C11: when two checkouts generated the same order number (both read the same last
\* order), neither of them ends without its order inserted.
C11_CollisionIsRetried ==
  \A r \in Slots :
    (/\ \A q \in Slots : IsCheckout(q) /\ reqs[q].orderDoc.exists
     /\ reqs[1].orderDoc.orderNumber = reqs[2].orderDoc.orderNumber
     /\ reqs[r].pc = "done")
    => reqs[r].order # NoId

\* the cart a finished cart request would have produced from doc on its own
Apply(rq, doc) ==
  CASE rq.kind = "addToCart" ->
         AddItem(doc, rq.in.productId, rq.in.quantity, rq.productDoc.price,
                 rq.in.size, rq.in.color)
    [] rq.kind = "updateCartItem" ->
         UpdateQuantity(doc, rq.in.productId, rq.in.quantity, rq.in.size, rq.in.color)
    [] rq.kind = "removeFromCart" ->
         RemoveItem(doc, rq.in.productId, rq.in.size, rq.in.color)

CartRequests == {"addToCart", "updateCartItem", "removeFromCart"}

\* C12: when two cart requests of a user that read the same stored cart have both
\* ended with success, the stored cart is what the two give one after the other,
\* in one of the two orders.
C12_NoLostCartUpdate ==
  (/\ \A r \in Slots : /\ reqs[r].kind \in CartRequests
                       /\ reqs[r].pc = "done"
                       /\ reqs[r].res.status = 200
                       /\ reqs[r].cartDoc.exists
   /\ reqs[1].in.user = reqs[2].in.user
   /\ reqs[1].cartDoc = reqs[2].cartDoc)
  => LET cart == carts[reqs[1].in.user]
         ab == Apply(reqs[2], Apply(reqs[1], reqs[1].cartDoc))
         ba == Apply(reqs[1], Apply(reqs[2], reqs[1].cartDoc))
     IN \/ cart.items = ab.items /\ cart.totalAmount = ab.totalAmount
        \/ cart.items = ba.items /\ cart.totalAmount = ba.totalAmount

\* C13: the stored total of every cart is the sum of price times quantity over its
\* lines, after every addItem, updateQuantity, removeItem and clearCart.
C13_TotalIsSumOfLines ==
  \A u \in Users : carts[u].exists => carts[u].totalAmount = CalcTotal(carts[u].items)

C13_Witness ==
  \E r \in Slots :
    /\ Finished(r, "updateCartItem")
    /\ reqs[r].res.status = 200
    /\ reqs[r].in.quantity > 1
    /\ Len(carts[reqs[r].in.user].items) > 1

\* two lines of the same (product, size, color) triple
SameTriple(a, b) == SameItem(a, b.product, b.size, b.color)

NextFulfil ==
  \/ MpesaCallback(1)
  \/ UpdateStatus(1)

SpecFulfil == InitOrdered /\ [][NextFulfil]_vars

\* the store after two mobile-money checkouts of one cart that holds a finite-stock
\* line: two pending orders with the same lines under CheckoutRequestIDs 1 and 2,
\* the cart still holding the line, stock enough for both
TwiceOrderedCart(q) ==
  LET items == << [product |-> "shirt", quantity |-> q,
                   price |-> Catalog["shirt"].price, size |-> NoSel, color |-> NoSel] >>
  IN [exists |-> TRUE, items |-> items, totalAmount |-> CalcTotal(items), v |-> 1]

InitTwoOrders ==
  /\ products = Catalog
  /\ \E u \in Users, q \in 1..MaxQty :
       /\ 2 * q <= InitStock
       /\ carts = [w \in Users |-> IF w = u THEN TwiceOrderedCart(q) ELSE NoCart]
       /\ orders = << [NewOrder(u, TwiceOrderedCart(q), "mpesa", 1)
                         EXCEPT !.mpesaCheckoutId = 1],
                      [NewOrder(u, TwiceOrderedCart(q), "mpesa", 2)
                         EXCEPT !.mpesaCheckoutId = 2] >>
  /\ stk = << [order |-> 1, delivered |-> {}], [order |-> 2, delivered |-> {}] >>
  /\ reqs = [r \in Slots |-> Idle]
  /\ started = 0

\* the provider's callbacks for the two orders, handled side by side
NextTwoOrders ==
  \/ MpesaCallback(1)
  \/ MpesaCallback(2)

SpecTwoOrders == InitTwoOrders /\ [][NextTwoOrders]_vars

\* the store of InitOrdered, as the requests leave it
OrderedReached ==
  /\ products = Catalog
  /\ \E q \in 1..MaxQty :
       /\ carts["u1"] = OrderedCart(q)
       /\ orders = << [NewOrder("u1", OrderedCart(q), "mpesa", 1)
                        EXCEPT !.mpesaCheckoutId = 1] >>
  /\ stk = << [order |-> 1, delivered |-> {}] >>

\* the quantity a handler standing at decreaseStock asks for
DecreaseQty(r) ==
  IF reqs[r].kind = "mpesaCallback"
    THEN reqs[r].orderDoc.items[reqs[r].idx].quantity
    ELSE reqs[r].in.quantity

\* C16: no product's stock is ever below 0 unless it is the sentinel -1, under every
\* interleaving of decreaseStock, increaseStock, success callbacks and
\* cancellations; and decreaseStock asked for more than the product it was called
\* on has returns false and writes nothing.
C16_StockNeverNegative ==
  /\ \A p \in Products : products[p].stock = Unlimited \/ products[p].stock >= 0
  /\ \A r \in Slots :
       (/\ reqs[r].pc = "decreaseStock"
        /\ reqs[r].productDoc.stock # Unlimited
        /\ reqs[r].productDoc.stock < DecreaseQty(r))
       => LET d == decreaseStock(reqs[r].productDoc, DecreaseQty(r))
          IN ~d.ok /\ ~d.write

C16_Witness ==
  /\ products["shirt"].stock = 0
  /\ orders[1].paymentStatus = "completed"
  /\ Finished(2, "decreaseStock")
  /\ reqs[2].in.productId = "shirt"
  /\ reqs[2].productDoc.stock < reqs[2].in.quantity
  /\ InFlight(1)

\* C17: a product whose stock is the sentinel -1 keeps it through decreaseStock,
\* increaseStock, success callbacks and cancelOrder, and decreaseStock on it
\* returns true.
C17_UnlimitedStaysUnlimited ==
  /\ \A p \in Products : Catalog[p].stock = Unlimited => products[p].stock = Unlimited
  /\ \A r \in Slots :
       (reqs[r].pc = "decreaseStock" /\ reqs[r].productDoc.stock = Unlimited)
       => LET d == decreaseStock(reqs[r].productDoc, DecreaseQty(r))
          IN d.ok /\ d.stock = Unlimited

C17_Witness ==
  /\ orders[1].paymentStatus = "completed"
  /\ Finished(1, "cancelOrder")
  /\ reqs[1].res.status = 200
  /\ Finished(2, "increaseStock")
  /\ reqs[2].in.productId = "webdev"

\* C15: the items and totalAmount of a stored order are the same after every step,
\* whichever request takes it: cart changes, callbacks, timeouts, updateStatus,
\* cancelOrder; and no stored order loses its place.
C15_OrderSnapshotIsKept ==
  [][/\ Len(orders') >= Len(orders)
     /\ \A id \in 1..Len(orders) :
          (orders[id].exists /\ orders'[id].exists)
          => /\ orders'[id].items = orders[id].items
             /\ orders'[id].totalAmount = orders[id].totalAmount]_vars

C15_Witness ==
  \E r \in Slots :
    /\ Finished(r, "addToCart")
    /\ reqs[r].res.status = 200
    /\ Len(orders) > 0
    /\ orders[1].status = "cancelled"
    /\ orders[1].items # <<>>
    /\ carts[orders[1].user].items # orders[1].items

\* C18: cancelOrder called on an order it loaded as shipped, delivered or cancelled
\* throws and changes no order and no stock.
C18_CancelRefusedWhenNotCancellable ==
  [][\A r \in Slots :
       (/\ reqs[r].kind = "cancelOrder"
        /\ InFlight(r)
        /\ reqs[r].orderDoc.status \in {"shipped", "delivered", "cancelled"}
        /\ reqs'[r] # reqs[r])
       => /\ reqs'[r].pc = "done"
          /\ reqs'[r].threw
          /\ UNCHANGED <<orders, products>>]_vars

C18_Witness ==
  \E r \in Slots :
    /\ Finished(r, "cancelOrder")
    /\ reqs[r].threw
    /\ reqs[r].orderDoc.status = "cancelled"
    /\ QtyOf(reqs[r].orderDoc.items, "shirt") > 0

\* C19: cancelOrder called on an order it loaded as pending, paid or processing
\* gives each line's quantity back to a finite stock and leaves an unlimited one
\* alone, changes no stock otherwise, and ends with the order cancelled.
C19_CancelRestoresStock ==
  [][\A r \in Slots :
       (/\ reqs[r].kind = "cancelOrder"
        /\ InFlight(r)
        /\ reqs[r].orderDoc.status \in {"pending", "paid", "processing"}
        /\ reqs'[r] # reqs[r])
       => /\ IF reqs[r].pc = "restore"
               THEN LET item == reqs[r].orderDoc.items[reqs[r].idx]
                        pre == products[item.product].stock
                    IN products' =
                         [products EXCEPT ![item.product].stock =
                            IF pre # Unlimited THEN pre + item.quantity ELSE pre]
               ELSE products' = products
          /\ reqs'[r].pc = "done"
               => /\ reqs[r].idx = Len(reqs[r].orderDoc.items)
                  /\ orders'[reqs[r].order].status = "cancelled"
                  /\ reqs'[r].res.status = 200]_vars

C19_Witness ==
  \E r \in Slots :
    /\ Finished(r, "cancelOrder")
    /\ reqs[r].res.status = 200
    /\ reqs[r].orderDoc.status = "paid"
    /\ QtyOf(reqs[r].orderDoc.items, "shirt") > 1
    /\ products["shirt"].stock = InitStock
    /\ orders[reqs[r].order].status = "cancelled"

\* the cart cannot be checked out: it is missing or empty, or one of its lines has a
\* product that is inactive or has less finite stock than the line's quantity
NotOrderable(cart) ==
  \/ ~cart.exists
  \/ cart.items = <<>>
  \/ \E i \in 1..Len(cart.items) :
       LET product == products[cart.items[i].product]
       IN \/ ~product.isActive
          \/ product.stock >= 0 /\ product.stock < cart.items[i].quantity

\* C20: a checkout that reads a cart that cannot be checked out ends at once with
\* 400, inserts no order, starts no payment and writes no cart and no stock; and no
\* stored order has zero items.
C20_CheckoutRefusesUnavailable ==
  [][/\ \A r \in Slots :
          (/\ At(r, "checkoutCart", "loadCart")
           /\ NotOrderable(carts[reqs[r].in.user])
           /\ reqs'[r] # reqs[r])
          => /\ reqs'[r].pc = "done"
             /\ reqs'[r].res.status = 400
             /\ reqs'[r].order = NoId
             /\ UNCHANGED <<orders, stk, carts, products>>
     /\ \A id \in 1..Len(orders') : orders'[id].items # <<>>]_vars

C20_Witness ==
  \E r \in Slots :
    /\ Finished(r, "checkoutCart")
    /\ reqs[r].res.status = 400
    /\ reqs[r].in.addressOk
    /\ reqs[r].in.paymentMethod = "cash"
    /\ orders = <<>>
    /\ \E i \in 1..Len(carts[reqs[r].in.user].items) :
         LET line == carts[reqs[r].in.user].items[i]
         IN /\ products[line.product].isActive
            /\ products[line.product].stock >= 0
            /\ products[line.product].stock < line.quantity

\* a cash checkout of the mounted handler
CashCheckout(r) == reqs[r].kind = "checkoutCart" /\ reqs[r].in.paymentMethod = "cash"

MissingLine(r) ==
  /\ reqs[r].kind \in {"updateCartItem", "removeFromCart"}
  /\ reqs[r].pc = "done"
  /\ reqs[r].cartDoc.exists
  /\ FindIndex(reqs[r].cartDoc.items, reqs[r].in.productId,
               reqs[r].in.size, reqs[r].in.color) = 0

\* C22: updating or removing a line that is not in the cart is answered 404 and the
\* stored cart is the one that was loaded.
C22_MissingLineIsNotFound ==
  \A r \in Slots :
    MissingLine(r)
    => /\ reqs[r].res.status = 404
       /\ carts[reqs[r].in.user].items = reqs[r].cartDoc.items
       /\ carts[reqs[r].in.user].totalAmount = reqs[r].cartDoc.totalAmount

Terminal == {"delivered", "cancelled"}

\* C23: a stored order whose status is delivered or cancelled has that status after
\* every step, whichever operation takes it.
C23_TerminalStatusIsKept ==
  [][\A id \in 1..Len(orders) :
       (orders[id].exists /\ orders[id].status \in Terminal /\ orders'[id].exists)
       => orders'[id].status = orders[id].status]_vars

\* C24: a completed payment stays completed through failure callbacks and timeouts,
\* so every stored order with status paid has paymentStatus completed.
C24_PaidIsCompleted ==
  \A id \in 1..Len(orders) :
    (orders[id].exists /\ orders[id].status = "paid")
    => orders[id].paymentStatus = "completed"

\* C25: a success callback that found its order in status processing or shipped
\* leaves the order's status and every stock as they are.
C25_SuccessOnlyFromPending ==
  [][\A r \in Slots :
       (/\ InFlight(r)
        /\ reqs[r].kind = "mpesaCallback"
        /\ reqs[r].in.ResultCode = 0
        /\ reqs[r].order # NoId
        /\ reqs[r].orderDoc.status \in {"processing", "shipped"}
        /\ reqs'[r] # reqs[r])
       => /\ orders'[reqs[r].order].status = orders[reqs[r].order].status
          /\ UNCHANGED products]_vars

\* the store of InitTwoOrders, as the requests leave it
TwoOrdersReached ==
  /\ products = Catalog
  /\ carts["u1"] = TwiceOrderedCart(1)
  /\ orders = << [NewOrder("u1", TwiceOrderedCart(1), "mpesa", 1)
                    EXCEPT !.mpesaCheckoutId = 1],
                 [NewOrder("u1", TwiceOrderedCart(1), "mpesa", 2)
                    EXCEPT !.mpesaCheckoutId = 2] >>
  /\ stk = << [order |-> 1, delivered |-> {}], [order |-> 2, delivered |-> {}] >>

\* C26: when the success callbacks of two different orders, the only requests so
\* far, have both been handled, every finite stock is its initial value less the
\* quantities of both orders.
C26_NoLostDecrement ==
  (/\ \A r \in Slots : /\ Finished(r, "mpesaCallback")
                       /\ reqs[r].in.ResultCode = 0
                       /\ reqs[r].order # NoId
   /\ reqs[1].order # reqs[2].order
   /\ started = 2)
  => \A p \in Products :
       Catalog[p].stock # Unlimited
       => products[p].stock = Catalog[p].stock - QtyOf(reqs[1].orderDoc.items, p)
                                               - QtyOf(reqs[2].orderDoc.items, p)

\* C27: the stock of a finite-stock product that nobody restocks is never above its
\* initial value, through checkouts, payment results and cancellations.
C27_StockNeverAboveInitial ==
  \A p \in Products :
    Catalog[p].stock # Unlimited => products[p].stock <= Catalog[p].stock

\* line is of a triple that the order does not hold
NotOrdered(line, order) ==
  \A i \in 1..Len(order.items) : ~SameTriple(line, order.items[i])

\* C28: when a success callback has marked its order paid and comes to the cart,
\* every line of the cart that is not of the order (it was added after the
\* checkout) is in the cart after the step.
C28_ReconcileKeepsLaterLines ==
  [][\A r \in Slots :
       (At(r, "mpesaCallback", "clearCart") /\ reqs'[r] # reqs[r])
       => LET u == reqs[r].orderDoc.user
          IN \A i \in 1..Len(carts[u].items) :
               NotOrdered(carts[u].items[i], reqs[r].orderDoc)
               => \E j \in 1..Len(carts'[u].items) : carts'[u].items[j] = carts[u].items[i]]_vars

\* a success callback for a CheckoutRequestID the provider issued
ConfirmedPayment(r) ==
  /\ reqs[r].kind = "mpesaCallback"
  /\ reqs[r].in.shape = "ok"
  /\ reqs[r].in.ResultCode = 0
  /\ reqs[r].in.CheckoutRequestID \in 1..Len(stk)

\* C29: when the handling of a success callback for an accepted payment request
\* ends, the order the request was made for is stored with paymentStatus completed.
C29_ConfirmedPaymentIsRecorded ==
  [][\A r \in Slots :
       (InFlight(r) /\ ConfirmedPayment(r) /\ reqs'[r].pc = "done")
       => LET id == stk[reqs[r].in.CheckoutRequestID].order
          IN orders'[id].exists /\ orders'[id].paymentStatus = "completed"]_vars

\* C30: the order of every payment request the provider accepted is stored: the
\* compensating delete of a checkout never removes it.
C30_PromptedOrderExists ==
  \A c \in 1..Len(stk) : orders[stk[c].order].exists
====
